---- MODULE Spec2Model ----
(***************************************************************************)
(* The WhatsApp gateway of langgraph-whatsapp-agent: the signature         *)
(* middleware (server.py), the Twilio channel (channel.py) and the         *)
(* LangGraph client wrapper (agent.py), as one request pipeline.           *)
(*                                                                         *)
(* Python values are tagged records [t |-> type, v |-> value]; a Python    *)
(* str is a sequence of characters or tokens, so that strip(),             *)
(* startswith() and string formatting are computed, not assumed.           *)
(***************************************************************************)
EXTENDS Integers, Sequences, FiniteSets, TLC

\* Longest From / Body text of an inbound callback.
MaxLen == 2

\* Characters of From / Body: a blank and a letter.
Chars == {" ", "a"}

RECURSIVE TextsUpTo(_)
TextsUpTo(n) ==
    IF n = 0 THEN {<<>>}
    ELSE LET shorter == TextsUpTo(n - 1)
         IN  shorter \cup {Append(s, c) : s \in {x \in shorter : Len(x) = n - 1}, c \in Chars}

Texts == TextsUpTo(MaxLen)

(***************************************************************************)
(* Python values                                                           *)
(***************************************************************************)
PyNone == [t |-> "None"]
PyStr(s) == [t |-> "str", v |-> s]
PyList(s) == [t |-> "list", v |-> s]
PyDict(f) == [t |-> "dict", v |-> f]
PyInt(n) == [t |-> "int", v |-> n]

\* bool(x)
Truthy(x) ==
    CASE x.t = "None" -> FALSE
      [] x.t = "str"  -> Len(x.v) > 0
      [] x.t = "list" -> Len(x.v) > 0
      [] x.t = "dict" -> DOMAIN x.v # {}
      [] x.t = "int"  -> x.v # 0
      [] OTHER        -> TRUE

\* str(x): a str is returned as it is, anything else becomes its text form.
PyStrOf(x) == IF x.t = "str" THEN x ELSE PyStr(<<"str-of", x>>)

\* str.strip(): leading and trailing blanks removed.
RECURSIVE LStrip(_)
LStrip(s) == IF s # <<>> /\ Head(s) = " " THEN LStrip(Tail(s)) ELSE s

RECURSIVE RStrip(_)
RStrip(s) ==
    IF s # <<>> /\ s[Len(s)] = " " THEN RStrip(SubSeq(s, 1, Len(s) - 1)) ELSE s

Strip(s) == RStrip(LStrip(s))

\* str.startswith(prefix) on token sequences.
StartsWith(s, prefix) ==
    /\ Len(s) >= Len(prefix)
    /\ SubSeq(s, 1, Len(prefix)) = prefix

\* int(s) for the decimal strings NumMedia carries.
IntOf(s) ==
    CASE s = <<"0">> -> 0
      [] s = <<"1">> -> 1
      [] s = <<"2">> -> 2

(***************************************************************************)
(* The inbound callback: a form and the headers the signature checks read. *)
(* A form field or header is <<>> when absent and <<value>> when present.  *)
(***************************************************************************)
\* form_data.get(key, default) / headers.get(key, default)
Get(opt, default) == IF opt = <<>> THEN default ELSE opt[1]

Opt(S) == {<<>>} \cup {<<x>> : x \in S}

\* MIME types are <<major, "/", minor>>; "" is <<>>.
ImagePng == <<"image", "/", "png">>
ImageJpeg == <<"image", "/", "jpeg">>
ImageGif == <<"image", "/", "gif">>
AppPdf == <<"application", "/", "pdf">>

\* Media URLs are <<location, extension>>; "" is <<>>.
UrlPng == <<"https://api.twilio.com/media/ME1", ".png">>
UrlPdf == <<"https://api.twilio.com/media/ME2", ".pdf">>
UrlBare == <<"https://api.twilio.com/media/ME3", "">>
UrlSecond == <<"https://api.twilio.com/media/ME4", ".png">>

\* NumMedia, MediaUrl0, MediaContentType0, MediaUrl1, MediaContentType1 as
\* Twilio or a test sends them.
MediaForms ==
    { [NumMedia |-> <<>>, MediaUrl0 |-> <<>>, MediaContentType0 |-> <<>>, MediaUrl1 |-> <<>>,
       MediaContentType1 |-> <<>>],
      [NumMedia |-> <<<<"0">>>>, MediaUrl0 |-> <<>>, MediaContentType0 |-> <<>>, MediaUrl1 |-> <<>>,
       MediaContentType1 |-> <<>>],
      [NumMedia |-> <<<<"0">>>>, MediaUrl0 |-> <<UrlPng>>, MediaContentType0 |-> <<ImagePng>>, MediaUrl1 |-> <<>>,
       MediaContentType1 |-> <<>>],
      [NumMedia |-> <<<<"1">>>>, MediaUrl0 |-> <<UrlPng>>, MediaContentType0 |-> <<ImagePng>>, MediaUrl1 |-> <<>>,
       MediaContentType1 |-> <<>>],
      [NumMedia |-> <<<<"1">>>>, MediaUrl0 |-> <<UrlPdf>>, MediaContentType0 |-> <<ImagePng>>, MediaUrl1 |-> <<>>,
       MediaContentType1 |-> <<>>],
      [NumMedia |-> <<<<"1">>>>, MediaUrl0 |-> <<UrlBare>>, MediaContentType0 |-> <<ImageJpeg>>, MediaUrl1 |-> <<>>,
       MediaContentType1 |-> <<>>],
      [NumMedia |-> <<<<"1">>>>, MediaUrl0 |-> <<UrlPdf>>, MediaContentType0 |-> <<AppPdf>>, MediaUrl1 |-> <<>>,
       MediaContentType1 |-> <<>>],
      [NumMedia |-> <<<<"1">>>>, MediaUrl0 |-> <<>>, MediaContentType0 |-> <<ImagePng>>, MediaUrl1 |-> <<>>,
       MediaContentType1 |-> <<>>],
      [NumMedia |-> <<<<"1">>>>, MediaUrl0 |-> <<UrlPng>>, MediaContentType0 |-> <<>>, MediaUrl1 |-> <<>>,
       MediaContentType1 |-> <<>>],
      [NumMedia |-> <<<<"2">>>>, MediaUrl0 |-> <<UrlPng>>, MediaContentType0 |-> <<ImagePng>>, MediaUrl1 |-> <<UrlSecond>>,
       MediaContentType1 |-> <<ImagePng>>] }

\* MessageStatus / SmsSid of a delivery receipt.
StatusForms ==
    { [MessageStatus |-> <<>>, SmsSid |-> <<>>],
      [MessageStatus |-> <<"delivered">>, SmsSid |-> <<>>],
      [MessageStatus |-> <<"delivered">>, SmsSid |-> <<"SM1">>] }

Forms ==
    { [From |-> f, Body |-> b, NumMedia |-> m.NumMedia, MediaUrl0 |-> m.MediaUrl0,
       MediaContentType0 |-> m.MediaContentType0, MediaUrl1 |-> m.MediaUrl1,
       MediaContentType1 |-> m.MediaContentType1,
       MessageStatus |-> s.MessageStatus, SmsSid |-> s.SmsSid] :
      f \in Opt(Texts), b \in Opt(Texts), m \in MediaForms, s \in StatusForms }

Schemes == {"http", "https"}

\* The provider signs the URL it posted to together with the form; the
\* X-Twilio-Signature header carries that signature.
SignatureOf(url, form) == [url |-> url, form |-> form]

PublicHost == "gw.example.com"
WebhookPath == "/whatsapp"

Requests ==
    { [form |-> fm, scheme |-> sc, x_forwarded_proto |-> xp, signed_proto |-> sp] :
      fm \in Forms, sc \in Schemes, xp \in Opt(Schemes), sp \in Opt(Schemes) }

\* request.headers.get("X-Twilio-Signature", "")
SignatureHeader(r) ==
    IF r.signed_proto = <<>> THEN <<>>
    ELSE <<SignatureOf(<<r.signed_proto[1], "://", PublicHost, WebhookPath>>, r.form)>>

\* RequestValidator.validate(url, params, signature)
Validate(url, params, sig) == sig = <<SignatureOf(url, params)>>

\* server.py: the URL the middleware checks the signature against.
MiddlewareUrl(r) ==
    <<Get(r.x_forwarded_proto, r.scheme), "://", PublicHost, WebhookPath>>

\* channel.py: the URL validate_request checks the signature against.
ValidateRequestUrl(r) ==
    <<Get(r.x_forwarded_proto, "http"), "://", PublicHost, WebhookPath>>

(***************************************************************************)
(* channel.py: twilio_url_to_data_uri                                      *)
(***************************************************************************)
\* config.TWILIO_ACCOUNT_SID / config.TWILIO_AUTH_TOKEN: WhatsAppAgentTwilio's
\* constructor refuses to start with either of them empty.
TWILIO_ACCOUNT_SID == <<"AC-sid">>
TWILIO_AUTH_TOKEN == <<"auth-token">>

\* mimetypes.guess_type(url)[0]: by the URL's extension, <<>> for None.
GuessType(url) ==
    CASE url[Len(url)] = ".png" -> <<ImagePng>>
      [] url[Len(url)] = ".gif" -> <<ImageGif>>
      [] url[Len(url)] = ".pdf" -> <<AppPdf>>
      [] OTHER                  -> <<>>

\* mime = mimetypes.guess_type(url)[0] or "image/jpeg"
ResolveMime(url, response_content_type) == Get(GuessType(url), ImageJpeg)

\* What the GET of a media URL can do: answer 2xx with a body and a
\* Content-Type header, answer non-2xx, or time out.
FetchOutcomes ==
    { [kind |-> "ok", content |-> "bytes", content_type |-> <<ImagePng>>],
      [kind |-> "ok", content |-> "bytes", content_type |-> <<>>],
      [kind |-> "http_error"],
      [kind |-> "timeout"] }

\* The value twilio_url_to_data_uri returns, or the exception it raises.
twilio_url_to_data_uri(url, outcome) ==
    IF TWILIO_ACCOUNT_SID = <<>> \/ TWILIO_AUTH_TOKEN = <<>>
    THEN [ok |-> FALSE, exc |-> "RuntimeError"]
    ELSE IF outcome.kind = "timeout"
    THEN [ok |-> FALSE, exc |-> "Timeout"]
    ELSE IF outcome.kind = "http_error"
    THEN [ok |-> FALSE, exc |-> "HTTPError"]
    ELSE [ok |-> TRUE,
          val |-> <<"data:">> \o ResolveMime(url, outcome.content_type)
                     \o <<";base64,", <<"b64", outcome.content>>>>]

(***************************************************************************)
(* agent.py: Agent.invoke                                                  *)
(***************************************************************************)
\* A thread key that reads the first character of the id only.
ThreadIdentityOfPrefix(id) == <<"uuid5", "NAMESPACE_DNS", SubSeq(id, 1, 1)>>

\* str(uuid.uuid5(uuid.NAMESPACE_DNS, id)): a name-based hash of id.
ThreadIdentity(id) == <<"uuid5", "NAMESPACE_DNS", id>>

ASSISTANT_ID == "agent"
GraphConfig == PyDict(<<>>)

\* The keyword parameters of Agent.invoke and those without a default.
InvokeParams == {"id", "user_message", "images"}
InvokeRequired == {"id", "user_message"}

\* The text part added under the inverted condition.
TextPartInverted(user_message) ==
    IF Len(user_message) > 0
    THEN <<>>
    ELSE <<[type |-> "text", text |-> user_message]>>

\* The text part of message_content.
TextPart(user_message) ==
    IF Len(user_message) > 0
    THEN <<[type |-> "text", text |-> user_message]>>
    ELSE <<>>

\* The image parts of message_content, one per entry of images.
RECURSIVE ImageParts(_)
ImageParts(images) ==
    IF images = <<>> THEN <<>>
    ELSE (IF "image_url" \in DOMAIN Head(images)
          THEN <<[type |-> "image_url", image_url |-> Head(images).image_url]>>
          ELSE <<>>) \o ImageParts(Tail(images))

MessageContent(user_message, images) ==
    TextPart(user_message) \o ImageParts(images)

\* A request_payload that leaves the configuration out.
RequestPayloadWithoutConfig(id, user_message, images) ==
    [thread_id |-> ThreadIdentity(id),
     assistant_id |-> ASSISTANT_ID,
     input |-> [messages |-> <<[role |-> "user",
                                content |-> MessageContent(user_message, images)]>>],
     config |-> PyNone,
     metadata |-> [event |-> "api_call"],
     multitask_strategy |-> "interrupt",
     if_not_exists |-> "create",
     stream_mode |-> "values"]

\* A request_payload that asks for the run to be queued behind a running one.
RequestPayloadEnqueue(id, user_message, images) ==
    [thread_id |-> ThreadIdentity(id),
     assistant_id |-> ASSISTANT_ID,
     input |-> [messages |-> <<[role |-> "user",
                                content |-> MessageContent(user_message, images)]>>],
     config |-> GraphConfig,
     metadata |-> [event |-> "api_call"],
     multitask_strategy |-> "enqueue",
     if_not_exists |-> "create",
     stream_mode |-> "values"]

\* request_payload of Agent.invoke.
RequestPayload(id, user_message, images) ==
    [thread_id |-> ThreadIdentity(id),
     assistant_id |-> ASSISTANT_ID,
     input |-> [messages |-> <<[role |-> "user",
                                content |-> MessageContent(user_message, images)]>>],
     config |-> GraphConfig,
     metadata |-> [event |-> "api_call"],
     multitask_strategy |-> "interrupt",
     if_not_exists |-> "create",
     stream_mode |-> "values"]

(***************************************************************************)
(* agent.py: the reply taken from the last chunk of the stream             *)
(***************************************************************************)
Return(x) == [ok |-> TRUE, val |-> x]
Raise(e) == [ok |-> FALSE, exc |-> e]

\* A chunk of client.runs.stream: a StreamPart with an event and its data.
StreamPart(data) == [t |-> "StreamPart", event |-> "values", data |-> data]

\* final_response.data["messages"][-1]["content"]
OriginalFormat(final_response) ==
    IF final_response.t = "None" THEN Raise("AttributeError")
    ELSE LET data == final_response.data IN
         IF data.t # "dict" THEN Raise("TypeError")
         ELSE IF "messages" \notin DOMAIN data.v THEN Raise("KeyError")
         ELSE LET messages == data.v.messages IN
              CASE messages.t = "list" ->
                     IF Len(messages.v) = 0 THEN Raise("IndexError")
                     ELSE LET last == messages.v[Len(messages.v)] IN
                          IF last.t # "dict" THEN Raise("TypeError")
                          ELSE IF "content" \in DOMAIN last.v
                          THEN Return(last.v.content)
                          ELSE Raise("KeyError")
                [] messages.t = "str" ->
                     IF Len(messages.v) = 0 THEN Raise("IndexError") ELSE Raise("TypeError")
                [] messages.t = "dict" -> Raise("KeyError")
                [] OTHER -> Raise("TypeError")

\* for msg in reversed(messages): the most recent dict with role "assistant"
\* and a truthy content; <<>> when there is none.
RECURSIVE AssistantContent(_)
AssistantContent(messages) ==
    IF messages = <<>> THEN <<>>
    ELSE LET msg == messages[Len(messages)] IN
         IF /\ msg.t = "dict"
            /\ "role" \in DOMAIN msg.v
            /\ msg.v.role = PyStr(<<"assistant">>)
            /\ "content" \in DOMAIN msg.v
            /\ Truthy(msg.v.content)
         THEN <<PyStrOf(msg.v.content)>>
         ELSE AssistantContent(SubSeq(messages, 1, Len(messages) - 1))

\* for key in ["text", "message", "reply", "answer"]: the first one present.
ContentLikeKeys == <<"text", "message", "reply", "answer">>

RECURSIVE ContentLike(_, _)
ContentLike(d, keys) ==
    IF keys = <<>> THEN <<>>
    ELSE IF Head(keys) \in DOMAIN d THEN <<PyStrOf(d[Head(keys)])>>
    ELSE ContentLike(d, Tail(keys))

\* The alternative formats with the response field looked up first.
DictFormatsResponseFirst(data) ==
    LET d == data.v
        has(k) == k \in DOMAIN d
    IN  IF has("response") /\ d.response.t = "str" THEN d.response
        ELSE IF has("content") THEN d.content
        ELSE IF has("output") /\ d.output.t = "str" THEN d.output
        ELSE IF has("output") /\ d.output.t = "dict" /\ "content" \in DOMAIN d.output.v
             THEN d.output.v.content
        ELSE IF has("response") /\ d.response.t = "str" THEN d.response
        ELSE IF has("messages") /\ d.messages.t = "list"
                /\ AssistantContent(d.messages.v) # <<>>
             THEN AssistantContent(d.messages.v)[1]
        ELSE IF has("messages") /\ d.messages.t = "list" /\ Len(d.messages.v) > 0
                /\ d.messages.v[Len(d.messages.v)].t = "dict"
                /\ "content" \in DOMAIN d.messages.v[Len(d.messages.v)].v
             THEN d.messages.v[Len(d.messages.v)].v.content
        ELSE IF ContentLike(d, ContentLikeKeys) # <<>>
             THEN ContentLike(d, ContentLikeKeys)[1]
        ELSE PyStrOf(data)

\* The alternative formats tried on a dict payload, in the code's order.
DictFormats(data) ==
    LET d == data.v
        has(k) == k \in DOMAIN d
    IN  IF has("content") THEN d.content
        ELSE IF has("output") /\ d.output.t = "str" THEN d.output
        ELSE IF has("output") /\ d.output.t = "dict" /\ "content" \in DOMAIN d.output.v
             THEN d.output.v.content
        ELSE IF has("response") /\ d.response.t = "str" THEN d.response
        ELSE IF has("messages") /\ d.messages.t = "list"
                /\ AssistantContent(d.messages.v) # <<>>
             THEN AssistantContent(d.messages.v)[1]
        ELSE IF has("messages") /\ d.messages.t = "list" /\ Len(d.messages.v) > 0
                /\ d.messages.v[Len(d.messages.v)].t = "dict"
                /\ "content" \in DOMAIN d.messages.v[Len(d.messages.v)].v
             THEN d.messages.v[Len(d.messages.v)].v.content
        ELSE IF ContentLike(d, ContentLikeKeys) # <<>>
             THEN ContentLike(d, ContentLikeKeys)[1]
        ELSE PyStrOf(data)

\* The except branch of the extraction.
AlternativeFormats(final_response) ==
    LET data == final_response.data IN
    IF Truthy(data)
    THEN CASE data.t = "str"  -> data
           [] data.t = "dict" -> DictFormats(data)
           [] OTHER           -> PyStrOf(data)
    ELSE PyStrOf(final_response)

\* An extraction that tries the alternative formats before the last message.
ExtractReplyAlternativesFirst(final_response) ==
    IF final_response.t = "None" THEN Raise("AttributeError")
    ELSE Return(AlternativeFormats(final_response))

\* What Agent.invoke returns, or the exception it lets through, once the
\* stream has ended with final_response as its last chunk.
ExtractReply(final_response) ==
    LET first == OriginalFormat(final_response) IN
    IF first.ok THEN first
    ELSE IF first.exc \in {"KeyError", "TypeError", "IndexError"}
    THEN Return(AlternativeFormats(final_response))
    ELSE first

(***************************************************************************)
(* The remote runtime's answers to a run request                           *)
(***************************************************************************)
Msg(role, content) == PyDict([role |-> PyStr(<<role>>), content |-> content])

Payloads ==
    { PyDict([messages |-> PyList(<<Msg("user", PyStr(<<"hi">>)),
                                    Msg("assistant", PyStr(<<"Hello!">>))>>)]),
      PyDict([messages |-> PyList(<<Msg("assistant", PyStr(<<>>))>>)]),
      PyDict([messages |-> PyList(<<Msg("assistant",
                  PyList(<<PyDict([type |-> PyStr(<<"text">>)])>>))>>)]),
      PyDict([output |-> PyStr(<<"done">>)]),
      PyStr(<<"ok">>),
      PyNone }

\* The failures of the streaming call: the runtime is unreachable, answers
\* with an error status, or breaks the stream's protocol.
StreamErrors == {"ConnectError", "HTTPStatusError", "RemoteProtocolError"}

IntermediatePayload ==
    PyDict([messages |-> PyList(<<Msg("user", PyStr(<<"hi">>))>>)])

\* The stream ends after no chunk, one chunk, or an intermediate snapshot
\* followed by a last one; or it fails.
StreamOutcomes ==
    {[kind |-> "error", exc |-> e] : e \in StreamErrors}
    \cup {[kind |-> "chunks", chunks |-> <<>>]}
    \cup {[kind |-> "chunks", chunks |-> <<StreamPart(p)>>] : p \in Payloads}
    \cup {[kind |-> "chunks", chunks |-> <<StreamPart(IntermediatePayload), StreamPart(p)>>] :
              p \in Payloads}

\* final_response after "async for chunk in ...: final_response = chunk".
LastChunk(chunks) == IF chunks = <<>> THEN PyNone ELSE chunks[Len(chunks)]

(***************************************************************************)
(* HTTP responses                                                          *)
(***************************************************************************)
\* Response(status_code=401, content="Invalid Twilio signature")
InvalidSignatureResponse ==
    [status_code |-> 401, media_type |-> <<>>,
     body |-> [kind |-> "text", text |-> "Invalid Twilio signature"]]

\* FastAPI's answer to a raised HTTPException(status_code, detail).
HTTPException(status_code, detail) ==
    [status_code |-> status_code, media_type |-> <<"application/json">>,
     body |-> [kind |-> "json", detail |-> detail]]

\* server.py: except Exception -> HTTPException(500, "Internal server error")
InternalServerError == HTTPException(500, "Internal server error")

\* An exception as raised in the handler: an HTTPException with its status
\* and detail, or any other exception with its class and message.
RaisedHTTPException(status_code, detail) ==
    [kind |-> "HTTPException", status_code |-> status_code, detail |-> detail]
Raised(kind) == [kind |-> kind, message |-> <<"message of", kind>>]

\* An except clause that puts the exception's message in the detail.
ExceptionResponseWithMessage(exc) ==
    IF exc.kind = "HTTPException"
    THEN HTTPException(exc.status_code, exc.detail)
    ELSE HTTPException(500, exc.message)

\* whatsapp_reply_twilio's except clauses: an HTTPException is re-raised and
\* answered with its own status and detail, any other exception with the
\* fixed 500.
ExceptionResponse(exc) ==
    IF exc.kind = "HTTPException"
    THEN HTTPException(exc.status_code, exc.detail)
    ELSE InternalServerError

\* A TwiML document to which no message was added.
MessagingResponseEmpty(agent_response) == Return([tag |-> "Response", children |-> <<>>])

\* MessagingResponse().message(agent_response): the TwiML document, or the
\* TypeError of serialising a body that is neither text nor falsy.
MessagingResponse(agent_response) ==
    IF Truthy(agent_response) /\ agent_response.t # "str"
    THEN Raise("TypeError")
    ELSE Return([tag |-> "Response",
                 children |-> <<[tag |-> "Message",
                                 text |-> IF Truthy(agent_response)
                                          THEN agent_response.v ELSE <<>>]>>])

\* server.py: Response(content=xml, media_type="application/xml")
XmlResponse(xml) ==
    [status_code |-> 200, media_type |-> <<"application/xml">>,
     body |-> [kind |-> "twiml", root |-> xml]]

(***************************************************************************)
(* server.py / channel.py: the steps of one POST /whatsapp                 *)
(***************************************************************************)
\* The fields of the callback, in the order they are sent.
FormFields ==
    <<"From", "Body", "NumMedia", "MediaUrl0", "MediaContentType0", "MediaUrl1",
      "MediaContentType1", "MessageStatus", "SmsSid">>

\* body = await request.body(): the urlencoded form as sent, one
\* <<name, value>> for each field present, blank values included.
RequestBody(r) ==
    LET present == SelectSeq(FormFields, LAMBDA k : r.form[k] # <<>>)
    IN  [i \in DOMAIN present |-> <<present[i], r.form[present[i]][1]>>]

\* The values a body carries for a field, in order.
ValuesOf(body, k) ==
    LET at == SelectSeq(body, LAMBDA pair : pair[1] = k)
    IN  [i \in DOMAIN at |-> at[i][2]]

\* parse_qs(body.decode(), keep_blank_values=True): for each field the list
\* of its values.
ParseQs(body) == [k \in {FormFields[i] : i \in DOMAIN FormFields} |-> ValuesOf(body, k)]

\* A replay that hands on the stream as the middleware left it: read to its end.
ReplayConsumed(body) == [type |-> "http.request", body |-> <<>>, more_body |-> FALSE]

\* _replay(): the message the rewound receive channel hands downstream,
\* every time it is called.
Replay(body) == [type |-> "http.request", body |-> body, more_body |-> FALSE]

\* The form parser on a body: for each field its value, of several values
\* the last one.
ParseForm(body) ==
    [k \in {FormFields[i] : i \in DOMAIN FormFields} |->
        IF \E i \in DOMAIN body : body[i][1] = k
        THEN <<body[CHOOSE i \in DOMAIN body :
                      /\ body[i][1] = k
                      /\ \A j \in DOMAIN body : body[j][1] = k => j <= i][2]>>
        ELSE <<>>]

\* await request.form() downstream of the middleware: the form parsed from
\* the body the receive channel hands over.
FormData(r) == ParseForm(Replay(RequestBody(r)).body)

\* dispatch with the signature check left out.
DispatchValidatesAnything(r) == TRUE

\* server.py: self.validator.validate(url, form_dict, sig) in dispatch.
DispatchValidates(r) ==
    \E body \in {RequestBody(r)} :
    \E form_dict \in {ParseQs(body)} :
        Validate(MiddlewareUrl(r), form_dict, SignatureHeader(r))

\* A validate_request that accepts whatever it is given.
ValidateRequestAnything(r) == TRUE

\* channel.py: WhatsAppAgentTwilio.validate_request.
validate_request(r) ==
    \E body \in {Replay(RequestBody(r)).body} :
    \E form_data \in {ParseForm(body)} :
        Validate(ValidateRequestUrl(r), form_data, SignatureHeader(r))

\* The sender taken from the form without strip().
SenderUntrimmed(form) == Get(form.From, <<>>)

\* sender = form_data.get('From', "").strip()
Sender(form) == Strip(Get(form.From, <<>>))

\* The content taken from the form without strip().
ContentUntrimmed(form) == Get(form.Body, <<>>)

\* content = form_data.get('Body', "").strip()
Content(form) == Strip(Get(form.Body, <<>>))

\* num_media = int(form_data.get('NumMedia', "0"))
NumMedia(form) == IntOf(Get(form.NumMedia, <<"0">>))

MediaUrl(form) == Get(form.MediaUrl0, <<>>)
MediaContentType(form) == Get(form.MediaContentType0, <<>>)

\* The download decided without looking at the declared content type.
WantsFetchAnyType(form) ==
    /\ IntOf(Get(form.NumMedia, <<"0">>)) > 0
    /\ Len(Get(form.MediaUrl0, <<>>)) > 0
    /\ Len(Get(form.MediaContentType0, <<>>)) > 0

\* The conditions under which handle_message downloads the first attachment.
WantsFetch(form) ==
    /\ NumMedia(form) > 0
    /\ Len(MediaUrl(form)) > 0
    /\ Len(MediaContentType(form)) > 0
    /\ StartsWith(MediaContentType(form), <<"image", "/">>)

\* An except clause that catches only the HTTP status error.
FetchExceptionCaughtHttpOnly(exc) == exc = "HTTPError"

\* "except Exception" around the download: the exceptions it catches.
FetchExceptionCaught(exc) == exc \in {"RuntimeError", "Timeout", "HTTPError"}

\* handle_message without the check of the sender.
MissingSenderIgnored(sender_) == FALSE

\* if not sender
MissingSender(sender_) == Len(sender_) = 0

\* input_data of _process_message.
InputData(sender_, content_, media_) ==
    IF media_ # <<>> /\ "data_uri" \in DOMAIN media_[1]
    THEN [id |-> sender_, user_message |-> content_,
          image |-> [image_url |-> [url |-> media_[1].data_uri]]]
    ELSE [id |-> sender_, user_message |-> content_]

\* self.agent.invoke(**input_data): the call binds only when every keyword
\* is a parameter of invoke and every parameter without a default is given.
InvokeBinds(input_data) ==
    /\ DOMAIN input_data \subseteq InvokeParams
    /\ InvokeRequired \subseteq DOMAIN input_data

\* The images argument of invoke: None unless given.
ImagesArg(input_data) ==
    IF "images" \in DOMAIN input_data THEN input_data.images ELSE <<>>

VARIABLES
    request,          \* the POST being handled
    pc,               \* where its handling stands, or the terminal state it ended in
    sender,           \* handle_message's sender
    content,          \* handle_message's content
    media,            \* handle_message's media: <<>> for None
    fetches,          \* the media URLs fetched for this request, in order
    runs,             \* the run requests issued for this request, in order
    final_response,   \* invoke's final_response once the stream ended
    agent_response,   \* what invoke returned
    response,         \* the HTTP response: <<>> until one is sent
    calls,            \* concurrent calls of Agent.invoke: <<>> while one POST is followed
    remote            \* the remote runtime's threads, by thread_id

vars == <<request, pc, sender, content, media, fetches, runs, final_response,
          agent_response, response, calls, remote>>

Arrives(r) ==
    /\ request = r
    /\ pc = "dispatch"
    /\ sender = <<>>
    /\ content = <<>>
    /\ media = <<>>
    /\ fetches = <<>>
    /\ runs = <<>>
    /\ final_response = <<>>
    /\ agent_response = <<>>
    /\ response = <<>>
    /\ calls = <<>>
    /\ remote = <<>>

\* Requests share no state in the gateway: each behaviour is one POST.
Init == \E r \in Requests : Arrives(r)

\* The request ends in the terminal state `state` with HTTP response resp.
Answer(resp, state) ==
    /\ response' = <<resp>>
    /\ pc' = state

\* TwilioSignatureMiddleware.dispatch
dispatch ==
    /\ pc = "dispatch"
    /\ IF ~DispatchValidates(request)
       THEN Answer(InvalidSignatureResponse, "rejected")
       ELSE /\ pc' = "handle_message"
            /\ UNCHANGED response
    /\ UNCHANGED <<request, sender, content, media, fetches, runs, final_response,
                   agent_response, calls, remote>>

\* handle_message from the sender check on, with _process_message and
\* Agent.invoke up to the call of client.runs.stream.
ProcessMessage(sender_, content_, media_) ==
    IF MissingSender(sender_)
    THEN /\ Answer(ExceptionResponse(RaisedHTTPException(400, "Missing 'From' in request form")),
                   "rejected")
         /\ UNCHANGED runs
    ELSE LET input_data == InputData(sender_, content_, media_) IN
         IF ~InvokeBinds(input_data)
         THEN /\ Answer(ExceptionResponse(Raised("TypeError")), "internal-error")
              /\ UNCHANGED runs
         ELSE /\ runs' = Append(runs, RequestPayload(input_data.id, input_data.user_message,
                                                     ImagesArg(input_data)))
              /\ pc' = "stream"
              /\ UNCHANGED response

\* whatsapp_reply_twilio -> handle_message, up to the await of the agent's
\* stream; the download of the first attachment is a blocking call in it.
handle_message ==
    /\ pc = "handle_message"
    /\ \E body \in {Replay(RequestBody(request)).body} :
       \E form \in {ParseForm(body)} :
       IF ~validate_request(request)
       THEN /\ Answer(ExceptionResponse(
                         RaisedHTTPException(403, "Twilio signature validation failed")),
                   "rejected")
            /\ UNCHANGED <<sender, content, media, fetches, runs>>
       ELSE /\ sender' = Sender(form)
            /\ content' = Content(form)
            /\ IF WantsFetch(form)
               THEN \E outcome \in FetchOutcomes :
                      LET got == twilio_url_to_data_uri(MediaUrl(form), outcome) IN
                      /\ fetches' = Append(fetches, MediaUrl(form))
                      /\ IF got.ok
                         THEN /\ media' = <<[url |-> MediaUrl(form), data_uri |-> got.val,
                                             content_type |-> MediaContentType(form)]>>
                              /\ ProcessMessage(sender', content', media')
                         ELSE IF FetchExceptionCaught(got.exc)
                         THEN /\ media' = <<>>
                              /\ ProcessMessage(sender', content', media')
                         ELSE /\ media' = <<>>
                              /\ Answer(ExceptionResponse(Raised(got.exc)), "internal-error")
                              /\ UNCHANGED runs
               ELSE /\ media' = <<>>
                    /\ UNCHANGED fetches
                    /\ ProcessMessage(sender', content', media')
    /\ UNCHANGED <<request, final_response, agent_response, calls, remote>>

\* A failed stream after which the run request is sent once more.
StreamFailsRetried(exc) ==
    /\ IF Len(runs) < 2
       THEN /\ runs' = Append(runs, runs[Len(runs)])
            /\ UNCHANGED <<pc, response>>
       ELSE /\ Answer(ExceptionResponse(Raised(exc)), "internal-error")
            /\ UNCHANGED runs
    /\ UNCHANGED <<final_response, agent_response>>

\* A failed stream after which the run request is sent again, without end;
\* of the run requests sent only the last two are kept.
StreamFailsRetriedForever(exc) ==
    /\ runs' = IF Len(runs) < 2 THEN Append(runs, runs[Len(runs)]) ELSE Tail(runs)
    /\ UNCHANGED <<pc, response, final_response, agent_response>>

\* client.runs.stream fails: the exception leaves Agent.invoke, logged and
\* re-raised, and whatsapp_reply_twilio answers it.
StreamFails(exc) ==
    /\ Answer(ExceptionResponse(Raised(exc)), "internal-error")
    /\ UNCHANGED <<runs, final_response, agent_response>>

\* The stream of Agent.invoke ends; the reply is extracted, rendered as TwiML
\* and answered.
stream_ends ==
    /\ pc = "stream"
    /\ \E outcome \in StreamOutcomes :
         IF outcome.kind = "error"
         THEN StreamFails(outcome.exc)
         ELSE LET last == LastChunk(outcome.chunks)
                  got == ExtractReply(last)
              IN  /\ final_response' = <<last>>
                  /\ UNCHANGED runs
                  /\ IF ~got.ok
                     THEN /\ Answer(ExceptionResponse(Raised(got.exc)), "internal-error")
                          /\ UNCHANGED agent_response
                     ELSE /\ agent_response' = <<got.val>>
                          /\ LET xml == MessagingResponse(got.val) IN
                             IF xml.ok
                             THEN Answer(XmlResponse(xml.val), "replied")
                             ELSE Answer(ExceptionResponse(Raised(xml.exc)), "internal-error")
    /\ UNCHANGED <<request, sender, content, media, fetches, calls, remote>>

Next == dispatch \/ handle_message \/ stream_ends

Spec == Init /\ [][Next]_vars

\* The event loop runs every task that can run; the media GET ends by its
\* timeout at the latest and the stream of the run ends or fails.
FairSpec ==
    Spec /\ WF_vars(dispatch) /\ WF_vars(handle_message) /\ WF_vars(stream_ends)

(***************************************************************************)
(* Concurrent calls of Agent.invoke against the remote runtime             *)
(***************************************************************************)
\* The number of requests in flight together.
NumCalls == 3

\* The senders handle_message lets through: trimmed and not empty.
Senders == {s \in Texts : Strip(s) = s /\ ~MissingSender(s)}

\* The bodies of the concurrent requests.
Bodies == {<<>>, <<"a">>}

\* A thread of the remote runtime: the runs it executes, the runs it holds
\* back, and every run it admitted, in order.
NewThread == [running |-> {}, pending |-> <<>>, admitted |-> <<>>]

\* The remote runtime admits `run` to a thread under a multitask strategy.
Admit(thread, run, multitask_strategy) ==
    IF thread.running = {}
    THEN [thread EXCEPT !.running = {run}, !.admitted = Append(@, run)]
    ELSE CASE multitask_strategy = "interrupt" ->
                [thread EXCEPT !.running = {run}, !.admitted = Append(@, run)]
           [] multitask_strategy = "enqueue" ->
                [thread EXCEPT !.pending = Append(@, run), !.admitted = Append(@, run)]
           [] OTHER -> thread

\* The remote runtime serves a run request: the thread is created when it
\* is missing and if_not_exists is "create".
CreateRun(threads, run, payload) ==
    LET thread_id == payload.thread_id IN
    IF thread_id \notin DOMAIN threads /\ payload.if_not_exists # "create"
    THEN threads
    ELSE [t \in DOMAIN threads \cup {thread_id} |->
            IF t = thread_id
            THEN Admit(IF t \in DOMAIN threads THEN threads[t] ELSE NewThread,
                       run, payload.multitask_strategy)
            ELSE threads[t]]

\* A run of a thread finishes; the first run held back, if any, starts.
FinishRun(thread, run) ==
    IF thread.pending = <<>>
    THEN [thread EXCEPT !.running = @ \ {run}]
    ELSE [thread EXCEPT !.running = (@ \ {run}) \cup {Head(thread.pending)},
                        !.pending = Tail(@)]

\* The run of call i is neither executing nor held back.
RunOver(threads, i) ==
    \A t \in DOMAIN threads :
        /\ i \notin threads[t].running
        /\ \A k \in DOMAIN threads[t].pending : threads[t].pending[k] # i

\* NumCalls requests that passed handle_message, before their Agent.invoke.
InitConcurrent ==
    /\ request = <<>>
    /\ pc = "concurrent"
    /\ sender = <<>>
    /\ content = <<>>
    /\ media = <<>>
    /\ fetches = <<>>
    /\ runs = <<>>
    /\ final_response = <<>>
    /\ agent_response = <<>>
    /\ response = <<>>
    /\ calls \in [1..NumCalls -> [id : Senders, user_message : Bodies,
                                  pc : {"invoke"}, run : {<<>>}]]
    /\ remote = <<>>

\* Agent.invoke of call i up to client.runs.stream: the run request is sent.
Invoke(i) ==
    /\ calls[i].pc = "invoke"
    /\ LET payload == RequestPayload(calls[i].id, calls[i].user_message, <<>>) IN
       /\ calls' = [calls EXCEPT ![i].pc = "stream", ![i].run = <<payload>>]
       /\ remote' = CreateRun(remote, i, payload)
    /\ UNCHANGED <<request, pc, sender, content, media, fetches, runs, final_response,
                   agent_response, response>>

\* The remote runtime finishes a run that is executing.
RunFinishes(i) ==
    /\ \E t \in DOMAIN remote :
         /\ i \in remote[t].running
         /\ remote' = [remote EXCEPT ![t] = FinishRun(remote[t], i)]
    /\ UNCHANGED <<request, pc, sender, content, media, fetches, runs, final_response,
                   agent_response, response, calls>>

\* The stream of call i ends: its run finished or was interrupted.
StreamEnds(i) ==
    /\ calls[i].pc = "stream"
    /\ RunOver(remote, i)
    /\ calls' = [calls EXCEPT ![i].pc = "done"]
    /\ UNCHANGED <<request, pc, sender, content, media, fetches, runs, final_response,
                   agent_response, response, remote>>

NextConcurrent ==
    \E i \in 1..NumCalls : Invoke(i) \/ RunFinishes(i) \/ StreamEnds(i)

SpecConcurrent == InitConcurrent /\ [][NextConcurrent]_vars

(***************************************************************************)
(* Agent.invoke from the end of the stream on, over the shapes a last      *)
(* chunk's payload can take                                                *)
(***************************************************************************)
\* The values the "messages" field of a dict payload takes.
MessagesValues ==
    { PyList(<<>>),
      PyList(<<Msg("user", PyStr(<<"hi">>))>>),
      PyList(<<Msg("assistant", PyStr(<<"Hello!">>)), Msg("user", PyStr(<<"hi">>))>>),
      PyList(<<Msg("user", PyStr(<<"hi">>)), PyDict([role |-> PyStr(<<"assistant">>)])>>),
      PyList(<<Msg("assistant", PyNone)>>),
      PyList(<<Msg("assistant", PyStr(<<"Hello!">>)), PyDict([role |-> PyStr(<<"user">>)])>>),
      PyList(<<Msg("assistant", PyStr(<<"Old">>)), Msg("assistant", PyList(<<PyStr(<<"b">>)>>)),
               Msg("assistant", PyStr(<<>>)), PyDict([role |-> PyStr(<<"user">>)])>>),
      PyList(<<PyStr(<<"x">>)>>),
      PyStr(<<"m">>) }

\* The fields a dict payload may carry, each absent or with one of its values.
DictShapes ==
    [messages : Opt(MessagesValues),
     content  : Opt({PyStr(<<"C">>), PyNone}),
     output   : Opt({PyStr(<<"O">>), PyDict([content |-> PyStr(<<"OC">>)]), PyInt(5)}),
     response : Opt({PyStr(<<"R">>)}),
     text     : Opt({PyStr(<<"T">>)}),
     answer   : Opt({PyInt(7)})]

\* The dict with the fields of a shape that are present.
DictOf(shape) ==
    PyDict([k \in {f \in DOMAIN shape : shape[f] # <<>>} |-> shape[k][1]])

\* The payloads of a last chunk: dicts, lists, strings, numbers, null.
ExtractPayloads ==
    {DictOf(shape) : shape \in DictShapes}
    \cup {PyNone, PyStr(<<>>), PyStr(<<"ok">>), PyList(<<>>), PyList(<<PyStr(<<"x">>)>>),
          PyInt(0), PyInt(5)}

\* The streams that end without a transport error.
CompletedStreams == {<<>>} \cup {<<StreamPart(p)>> : p \in ExtractPayloads}

\* The stream of one call has ended; final_response is its last chunk.
InitExtract ==
    /\ request = <<>>
    /\ pc = "extract"
    /\ sender = <<>>
    /\ content = <<>>
    /\ media = <<>>
    /\ fetches = <<>>
    /\ runs = <<>>
    /\ final_response \in {<<LastChunk(chunks)>> : chunks \in CompletedStreams}
    /\ agent_response = <<>>
    /\ response = <<>>
    /\ calls = <<>>
    /\ remote = <<>>

\* Agent.invoke after the stream: it returns the reply or raises.
Extract ==
    /\ pc = "extract"
    /\ LET got == ExtractReply(final_response[1]) IN
       IF got.ok
       THEN /\ agent_response' = <<got.val>>
            /\ pc' = "returned"
       ELSE /\ pc' = "raised"
            /\ UNCHANGED agent_response
    /\ UNCHANGED <<request, sender, content, media, fetches, runs, final_response,
                   response, calls, remote>>

NextExtract == Extract

SpecExtract == InitExtract /\ [][NextExtract]_vars

(***************************************************************************)
(* twilio_url_to_data_uri over the media URLs and the answers of the GET   *)
(***************************************************************************)
\* Media URLs with and without an extension.
MediaUrls ==
    {<<location, extension>> :
        location \in {"https://api.twilio.com/media/ME1", "https://api.twilio.com/media/ME2",
                      "https://api.twilio.com/media/ME3", "https://api.twilio.com/media/ME4"},
        extension \in {".png", ".gif", ".pdf", ""}}

\* The answers of the GET: 2xx with a body and, possibly, a Content-Type
\* header; a non-2xx status; a timeout.
MediaResponses ==
    {[kind |-> "ok", content |-> c, content_type |-> ct] :
        c \in {"bytes", ""}, ct \in Opt({ImagePng, ImageJpeg, ImageGif, AppPdf})}
    \cup {[kind |-> "http_error"], [kind |-> "timeout"]}

\* One call of twilio_url_to_data_uri: request holds the URL and the answer
\* the GET will get.
InitFetch ==
    /\ request \in [url : MediaUrls, outcome : MediaResponses]
    /\ pc = "fetch"
    /\ sender = <<>>
    /\ content = <<>>
    /\ media = <<>>
    /\ fetches = <<>>
    /\ runs = <<>>
    /\ final_response = <<>>
    /\ agent_response = <<>>
    /\ response = <<>>
    /\ calls = <<>>
    /\ remote = <<>>

\* twilio_url_to_data_uri(url): media holds the data URI it returns.
Fetch ==
    /\ pc = "fetch"
    /\ LET got == twilio_url_to_data_uri(request.url, request.outcome) IN
       /\ fetches' = Append(fetches, request.url)
       /\ IF got.ok
          THEN /\ media' = <<[url |-> request.url, data_uri |-> got.val]>>
               /\ pc' = "fetched"
          ELSE /\ pc' = "raised"
               /\ UNCHANGED media
    /\ UNCHANGED <<request, sender, content, runs, final_response, agent_response,
                   response, calls, remote>>

NextFetch == Fetch

SpecFetch == InitFetch /\ [][NextFetch]_vars

(***************************************************************************)
(* Properties                                                              *)
(***************************************************************************)
Terminal == pc \in {"acknowledged", "rejected", "replied", "internal-error"}

Status == response[1].status_code

\* The signature matches the URL the middleware / validate_request rebuilds.
MiddlewareCheckPasses ==
    Validate(MiddlewareUrl(request), request.form, SignatureHeader(request))
HandlerCheckPasses ==
    Validate(ValidateRequestUrl(request), request.form, SignatureHeader(request))
SignatureVerified == MiddlewareCheckPasses /\ HandlerCheckPasses

\* MessageStatus and SmsSid are both present.
IsStatusCallback ==
    request.form.MessageStatus # <<>> /\ request.form.SmsSid # <<>>

\* From / Body as sent, "" when absent.
FromField == Get(request.form.From, <<>>)
BodyField == Get(request.form.Body, <<>>)

\* The content of the user turn of the run request.
SentContent == runs[1].input.messages[1].content

\* C1: a POST whose signature check fails (mismatch or missing header) is
\* answered 401 or 403 and no run request is ever issued for it.
C1_RejectedBeforeInvocation ==
    (~MiddlewareCheckPasses \/ ~HandlerCheckPasses) =>
        /\ runs = <<>>
        /\ Terminal => (pc = "rejected" /\ Status \in {401, 403})

C1_Witness ==
    /\ Terminal
    /\ SignatureHeader(request) = <<>>
    /\ ~MiddlewareCheckPasses
    /\ Status = 401
    /\ runs = <<>>

\* C2: a callback with MessageStatus and SmsSid both present ends
\* acknowledged, with the empty envelope, and no run request is issued for it
\* (stated here for the callbacks whose signature is verified).
C2_StatusCallbackAcknowledged ==
    (IsStatusCallback /\ SignatureVerified) =>
        /\ runs = <<>>
        /\ Terminal =>
              /\ pc = "acknowledged"
              /\ Status = 200
              /\ response[1].body.kind = "twiml"
              /\ response[1].body.root.children = <<>>

\* C3: a signature-verified callback that is no status callback and whose
\* From is absent or blank is answered 400 and no run request is issued.
C3_MissingSenderRejected ==
    (SignatureVerified /\ ~IsStatusCallback /\ Strip(FromField) = <<>>) =>
        /\ runs = <<>>
        /\ Terminal => (pc = "rejected" /\ Status = 400)

C3_Witness ==
    /\ Terminal
    /\ SignatureVerified
    /\ ~IsStatusCallback
    /\ request.form.From = <<<<" ">>>>
    /\ Status = 400
    /\ runs = <<>>

\* int(NumMedia) of the callback, 0 when the field is absent.
NumMediaField == IntOf(Get(request.form.NumMedia, <<"0">>))

\* The handler has run up to the agent's stream or to a response.
Handled == pc \notin {"dispatch", "handle_message"}

\* What the text part of a body is.
TextPartOf(text) == [type |-> "text", text |-> text]

\* The content of a turn that carries the trimmed Body alone.
TextOnlyContent ==
    IF Strip(BodyField) # <<>> THEN <<TextPartOf(Strip(BodyField))>> ELSE <<>>

\* C4 as stated: From = s and Body = b non-empty, NumMedia = 0: one run
\* request, content exactly [text part b], thread key ThreadIdentity(s).
C4_Original ==
    (SignatureVerified /\ Handled /\ FromField # <<>> /\ BodyField # <<>>
        /\ NumMediaField = 0) =>
        /\ Len(runs) = 1
        /\ Len(runs[1].input.messages) = 1
        /\ runs[1].input.messages[1].role = "user"
        /\ SentContent = <<TextPartOf(BodyField)>>
        /\ runs[1].thread_id = <<"uuid5", "NAMESPACE_DNS", FromField>>

\* C4 amended: From and Body non-empty after trimming, NumMedia = 0: one run
\* request, a single user turn whose content is exactly [text part of the
\* trimmed Body], thread key ThreadIdentity of the trimmed From.
C4_TextMessageInvokedOnce ==
    (SignatureVerified /\ Handled /\ Strip(FromField) # <<>> /\ Strip(BodyField) # <<>>
        /\ NumMediaField = 0) =>
        /\ Len(runs) = 1
        /\ Len(runs[1].input.messages) = 1
        /\ runs[1].input.messages[1].role = "user"
        /\ SentContent = <<TextPartOf(Strip(BodyField))>>
        /\ runs[1].thread_id = <<"uuid5", "NAMESPACE_DNS", Strip(FromField)>>

C4_Witness ==
    /\ pc = "stream"
    /\ SignatureVerified
    /\ FromField = <<" ", "a">>
    /\ BodyField = <<"a", " ">>
    /\ NumMediaField = 0
    /\ Len(runs) = 1

C6_ImageReachesAgent ==
    (SignatureVerified /\ Strip(FromField) # <<>> /\ media # <<>>) =>
        /\ Len(runs) = 1
        /\ SentContent =
              TextOnlyContent \o <<[type |-> "image_url", image_url |-> [url |-> media[1].data_uri]]>>
        /\ pc \in {"stream", "replied", "internal-error"}

\* C7: every data URI of a fetched attachment begins with "data:image/".
C7_DataUriIsImage ==
    media # <<>> => StartsWith(media[1].data_uri, <<"data:", "image", "/">>)

\* The first attachment is declared with a type that is not image/*.
DeclaredNonImage ==
    /\ NumMediaField > 0
    /\ Get(request.form.MediaUrl0, <<>>) # <<>>
    /\ Get(request.form.MediaContentType0, <<>>) # <<>>
    /\ Get(request.form.MediaContentType0, <<>>)[1] # "image"

\* C8: for an attachment declared with a non-image type nothing is fetched,
\* no image part is made, and with a sender the run request is issued with
\* the text alone.
C8_NonImageSkipped ==
    (SignatureVerified /\ Handled /\ DeclaredNonImage) =>
        /\ fetches = <<>>
        /\ media = <<>>
        /\ Strip(FromField) # <<>> =>
              /\ Len(runs) = 1
              /\ SentContent = TextOnlyContent
              /\ \A i \in DOMAIN SentContent : SentContent[i].type # "image_url"

C8_Witness ==
    /\ pc = "stream"
    /\ SignatureVerified
    /\ DeclaredNonImage
    /\ Strip(BodyField) # <<>>
    /\ fetches = <<>>
    /\ Len(runs) = 1

\* The download of the first attachment was attempted and failed.
FetchFailed == fetches # <<>> /\ media = <<>>

\* C9: a failed media fetch does not abort the request: with a sender, the
\* run request is still issued with the text, and the request ends replied
\* whenever the agent's reply is a text.
C9_FetchFailureSkipped ==
    (FetchFailed /\ Strip(FromField) # <<>>) =>
        /\ Len(runs) = 1
        /\ SentContent = TextOnlyContent
        /\ pc \in {"stream", "replied", "internal-error"}
        /\ (Terminal /\ agent_response # <<>> /\ agent_response[1].t = "str")
              => pc = "replied"

C9_Witness ==
    /\ pc = "replied"
    /\ FetchFailed
    /\ Strip(BodyField) # <<>>
    /\ SentContent = <<TextPartOf(Strip(BodyField))>>

\* The number of text parts in the content sent to the agent.
TextParts == {i \in DOMAIN SentContent : SentContent[i].type = "text"}

C11_ContentNeverEmpty ==
    runs # <<>> =>
        /\ SentContent # <<>>
        /\ (Strip(BodyField) = <<>> /\ media = <<>>) =>
              SentContent = <<TextPartOf(<<>>)>>

\* Two calls of Agent.invoke that have sent their run request.
Issued == {i \in DOMAIN calls : calls[i].run # <<>>}

C13_FixedRunSemantics ==
    \A k \in DOMAIN runs :
        /\ runs[k].if_not_exists = "create"
        /\ runs[k].multitask_strategy = "interrupt"
        /\ runs[k].stream_mode = "values"
        /\ runs[k].assistant_id = ASSISTANT_ID
        /\ runs[k].config = GraphConfig
        /\ Len(runs[k].input.messages) = 1
        /\ runs[k].input.messages[1].role = "user"

C13_Witness ==
    /\ pc = "stream"
    /\ Len(runs) = 1
    /\ runs[1].multitask_strategy = "interrupt"
    /\ runs[1].assistant_id = "agent"
    /\ runs[1].config = PyDict(<<>>)
    /\ runs[1].input.messages[1].content = <<TextPartOf(<<"a">>)>>

\* C14: under any interleaving of concurrent requests, a remote thread has
\* at most one active run: a run request for a thread with a run in flight
\* replaces that run, so the active run is the one admitted last, and no
\* run is ever held back behind another.
C14_OneActiveRunPerThread ==
    \A t \in DOMAIN remote :
        /\ Cardinality(remote[t].running) <= 1
        /\ remote[t].pending = <<>>
        /\ remote[t].running \subseteq {remote[t].admitted[Len(remote[t].admitted)]}

C14_Witness ==
    \E t \in DOMAIN remote :
        /\ Len(remote[t].admitted) >= 2
        /\ remote[t].running = {remote[t].admitted[2]}
        /\ calls[remote[t].admitted[1]].pc = "stream"
        /\ calls[remote[t].admitted[2]].pc = "stream"
        /\ calls[remote[t].admitted[1]].id = calls[remote[t].admitted[2]].id

\* The payload of the last chunk, when the stream yielded one.
HasChunk == final_response[1].t = "StreamPart"
Payload == final_response[1].data

\* C15: reply extraction is total: whatever the last chunk's payload, and
\* also when the stream yielded no chunk, Agent.invoke returns a string and
\* does not raise.
C15_ExtractionTotal ==
    pc # "extract" =>
        /\ pc = "returned"
        /\ agent_response[1].t = "str"

\* The payload has a non-empty messages list whose last entry has a content.
LastMessageHasContent ==
    /\ HasChunk
    /\ Payload.t = "dict"
    /\ "messages" \in DOMAIN Payload.v
    /\ Payload.v.messages.t = "list"
    /\ Len(Payload.v.messages.v) > 0
    /\ Payload.v.messages.v[Len(Payload.v.messages.v)].t = "dict"
    /\ "content" \in DOMAIN Payload.v.messages.v[Len(Payload.v.messages.v)].v

LastMessage == Payload.v.messages.v[Len(Payload.v.messages.v)]

\* C16: when the payload has a non-empty messages list whose last entry has
\* a content field, the reply is that content, whatever the entry's role
\* and whatever other fields the payload has.
C16_LastMessageContent ==
    (pc # "extract" /\ LastMessageHasContent) =>
        /\ pc = "returned"
        /\ agent_response = <<LastMessage.v.content>>

C16_Witness ==
    /\ pc = "returned"
    /\ LastMessageHasContent
    /\ Payload.v.messages = PyList(<<Msg("user", PyStr(<<"hi">>))>>)
    /\ {"content", "output", "response", "text"} \subseteq DOMAIN Payload.v
    /\ agent_response = <<PyStr(<<"hi">>)>>

\* C17: when the payload is itself a string, the reply is that string
\* unchanged, the empty string included.
C17_StringPayloadVerbatim ==
    (pc # "extract" /\ HasChunk /\ Payload.t = "str") =>
        /\ pc = "returned"
        /\ agent_response = <<Payload>>

\* The streaming call of the request failed: a run request was sent and the
\* handling went on without a last chunk ever being set.
StreamFailed == runs # <<>> /\ pc # "stream" /\ final_response = <<>>

\* C18: a callback causes at most one run request; when the streaming call
\* fails no second run request is issued and the request ends in
\* internal-error with HTTP 500.
C18_AtMostOneRunRequest ==
    /\ Len(runs) <= 1
    /\ StreamFailed =>
          /\ Len(runs) = 1
          /\ pc = "internal-error"
          /\ Status = 500
          /\ agent_response = <<>>

C18_Witness ==
    /\ StreamFailed
    /\ Len(runs) = 1
    /\ pc = "internal-error"
    /\ Status = 500

\* C19: a request that ends in internal-error is answered 500 with the one
\* fixed body, whatever failed; the deliberate rejections of the handler
\* keep their own status: 403 for the signature, 400 for the missing sender.
C19_GenericInternalError ==
    /\ pc = "internal-error" =>
          response = <<[status_code |-> 500, media_type |-> <<"application/json">>,
                        body |-> [kind |-> "json", detail |-> "Internal server error"]]>>
    /\ (Terminal /\ Status = 500) => pc = "internal-error"
    /\ (Terminal /\ MiddlewareCheckPasses /\ ~HandlerCheckPasses) =>
          (pc = "rejected" /\ Status = 403)
    /\ (Terminal /\ SignatureVerified /\ Strip(FromField) = <<>>) =>
          (pc = "rejected" /\ Status = 400)

C19_Witness ==
    /\ pc = "internal-error"
    /\ final_response = <<PyNone>>
    /\ Status = 500
    /\ response[1].body.detail = "Internal server error"

\* The callback carries two attachments, both declared image/*.
TwoImages ==
    /\ NumMediaField = 2
    /\ Get(request.form.MediaUrl0, <<>>) # <<>>
    /\ StartsWith(Get(request.form.MediaContentType0, <<>>), <<"image", "/">>)
    /\ Get(request.form.MediaUrl1, <<>>) # <<>>
    /\ StartsWith(Get(request.form.MediaContentType1, <<>>), <<"image", "/">>)

\* The image parts of the content sent to the agent, in order.
ImagePartsSent == SelectSeq(SentContent, LAMBDA part : part.type = "image_url")

\* C20: with NumMedia = n every attachment declared image/* is fetched, the
\* one at index 1 as well as the one at index 0, in index order, and each
\* one fetched is forwarded to the agent as an image part of its own.
C20_AllImagesForwarded ==
    (SignatureVerified /\ Handled /\ Strip(FromField) # <<>> /\ TwoImages) =>
        /\ fetches = <<request.form.MediaUrl0[1], request.form.MediaUrl1[1]>>
        /\ Len(runs) = 1
        /\ media # <<>> =>
              /\ ImagePartsSent # <<>>
              /\ ImagePartsSent[1].image_url.url = media[1].data_uri

\* The payload is a non-empty dict to which the last-message rule does not
\* apply, and Agent.invoke has finished on it.
DictWithoutLastContent ==
    /\ pc # "extract"
    /\ HasChunk
    /\ Payload.t = "dict"
    /\ DOMAIN Payload.v # {}
    /\ ~LastMessageHasContent

Reply == agent_response[1]

\* The rules for a dict payload, as stated.
HasField(k) == k \in DOMAIN Payload.v
ContentApplies == HasField("content")
OutputApplies ==
    /\ HasField("output")
    /\ \/ Payload.v.output.t = "str"
       \/ Payload.v.output.t = "dict" /\ "content" \in DOMAIN Payload.v.output.v
OutputReply ==
    IF Payload.v.output.t = "str" THEN Payload.v.output ELSE Payload.v.output.v.content
ResponseApplies == HasField("response") /\ Payload.v.response.t = "str"

\* The positions of the messages entries with role assistant, and of those
\* among them whose content is not empty.
AssistantEntries ==
    IF HasField("messages") /\ Payload.v.messages.t = "list"
    THEN {i \in DOMAIN Payload.v.messages.v :
            /\ Payload.v.messages.v[i].t = "dict"
            /\ "role" \in DOMAIN Payload.v.messages.v[i].v
            /\ Payload.v.messages.v[i].v.role = PyStr(<<"assistant">>)}
    ELSE {}
AssistantEntriesWithContent ==
    {i \in AssistantEntries :
        /\ "content" \in DOMAIN Payload.v.messages.v[i].v
        /\ Truthy(Payload.v.messages.v[i].v.content)}
MostRecent(S) == CHOOSE i \in S : \A j \in S : j <= i
ContentOfEntry(i) == Payload.v.messages.v[i].v.content

\* The first of text, message, reply, answer the payload has.
AlternateKeys == {k \in 1..4 : HasField(<<"text", "message", "reply", "answer">>[k])}
FirstAlternate ==
    Payload.v[<<"text", "message", "reply", "answer">>[CHOOSE k \in AlternateKeys :
                                                          \A j \in AlternateKeys : k <= j]]

\* C21 as stated: for a dict payload without a last-message content the
\* reply comes from the first applicable rule in the order content, output,
\* response, the content of the most recent entry with role assistant,
\* then text / message / reply / answer.
C21_Original ==
    DictWithoutLastContent =>
        /\ pc = "returned"
        /\ ContentApplies => Reply = Payload.v.content
        /\ (~ContentApplies /\ OutputApplies) => Reply = OutputReply
        /\ (~ContentApplies /\ ~OutputApplies /\ ResponseApplies) => Reply = Payload.v.response
        /\ (~ContentApplies /\ ~OutputApplies /\ ~ResponseApplies
               /\ AssistantEntries # {}
               /\ "content" \in DOMAIN Payload.v.messages.v[MostRecent(AssistantEntries)].v) =>
              Reply = ContentOfEntry(MostRecent(AssistantEntries))

\* C21 amended: the same order, where the assistant rule takes the most
\* recent entry with role assistant whose content is not empty, as a string,
\* and the last rule the string form of the first present of text, message,
\* reply, answer.
C21_RuleOrder ==
    DictWithoutLastContent =>
        /\ pc = "returned"
        /\ ContentApplies => Reply = Payload.v.content
        /\ (~ContentApplies /\ OutputApplies) => Reply = OutputReply
        /\ (~ContentApplies /\ ~OutputApplies /\ ResponseApplies) => Reply = Payload.v.response
        /\ (~ContentApplies /\ ~OutputApplies /\ ~ResponseApplies
               /\ AssistantEntriesWithContent # {}) =>
              Reply = PyStrOf(ContentOfEntry(MostRecent(AssistantEntriesWithContent)))
        /\ (~ContentApplies /\ ~OutputApplies /\ ~ResponseApplies
               /\ AssistantEntriesWithContent = {} /\ AlternateKeys # {}) =>
              Reply = PyStrOf(FirstAlternate)

C21_Witness ==
    /\ DictWithoutLastContent
    /\ ~ContentApplies
    /\ HasField("output") /\ ~OutputApplies
    /\ ResponseApplies
    /\ AssistantEntriesWithContent # {}
    /\ AlternateKeys = {1, 4}
    /\ Reply = PyStr(<<"R">>)

\* None of the rules that pick a field of the payload applies to it.
NoRuleApplies ==
    /\ HasChunk
    /\ ~LastMessageHasContent
    /\ Payload.t # "str"
    /\ Payload.t = "dict" =>
          /\ ~ContentApplies
          /\ ~OutputApplies
          /\ ~ResponseApplies
          /\ AssistantEntries = {}
          /\ AlternateKeys = {}

\* C22: when no rule applies the reply is the string form of the payload
\* itself, for empty and falsy payloads too, and not the string form of the
\* chunk that carries it.
C22_FallbackIsPayloadText ==
    (pc # "extract" /\ NoRuleApplies) =>
        /\ pc = "returned"
        /\ Reply = PyStrOf(Payload)

\* C23: the missing-sender rejection comes before any attachment is
\* examined: a request that ends in the 400 rejection has caused no media
\* fetch.
C23_NoFetchBeforeSenderCheck ==
    (Terminal /\ Status = 400) => fetches = <<>>

\* The MIME type of a fetched attachment by the stated priority: the
\* response's Content-Type, else the type of the URL's extension, else
\* image/jpeg.
MimeByPriority ==
    IF request.outcome.content_type # <<>> THEN request.outcome.content_type[1]
    ELSE CASE request.url[2] = ".png" -> ImagePng
           [] request.url[2] = ".gif" -> ImageGif
           [] request.url[2] = ".pdf" -> AppPdf
           [] OTHER -> ImageJpeg

\* C24: the MIME type in a fetched attachment's data URI is the response's
\* Content-Type when there is one, otherwise the type guessed from the
\* URL's extension, otherwise image/jpeg.
C24_MimePriority ==
    pc = "fetched" =>
        media[1].data_uri =
            <<"data:">> \o MimeByPriority \o <<";base64,", <<"b64", request.outcome.content>>>>

\* C25: every request eventually reaches a terminal state (acknowledged,
\* rejected, replied or internal-error), and from then on its state stays
\* as it is: no further media fetch and no further run request is made.
C25_ReachesOneTerminalState ==
    /\ <>Terminal
    /\ [][Terminal => (pc' = pc /\ fetches' = fetches /\ runs' = runs)]_vars

C25_Witness ==
    /\ pc = "replied"
    /\ Len(fetches) = 1
    /\ Len(runs) = 1
    /\ response # <<>>

\* C26: the two signature checks of a request agree: a request the
\* middleware accepted is checked by the handler against the same URL,
\* passes there too, and is never answered 403.
C26_SignatureChecksAgree ==
    (pc # "dispatch" /\ MiddlewareCheckPasses) =>
        /\ ValidateRequestUrl(request) = MiddlewareUrl(request)
        /\ HandlerCheckPasses
        /\ Terminal => Status # 403

C28_NoFetchBeforeVerification ==
    /\ pc \in {"dispatch", "handle_message"} => fetches = <<>>
    /\ fetches # <<>> => (MiddlewareCheckPasses /\ HandlerCheckPasses)

C28_Witness ==
    /\ fetches = <<UrlPng>>
    /\ media # <<>>
    /\ MiddlewareCheckPasses
    /\ HandlerCheckPasses

\* C29: the sender and the body are trimmed before use: the thread key of
\* the run request is that of the trimmed From, so that From fields that
\* differ in surrounding blanks share a thread, every text part sent is the
\* trimmed Body, and a From made of blanks only is a missing sender (400).
C29_TrimmedBeforeUse ==
    /\ runs # <<>> =>
          /\ runs[1].thread_id = <<"uuid5", "NAMESPACE_DNS", Strip(FromField)>>
          /\ \A i \in TextParts : SentContent[i].text = Strip(BodyField)
          /\ sender = Strip(FromField)
          /\ content = Strip(BodyField)
    /\ (Handled /\ SignatureVerified /\ FromField # <<>> /\ Strip(FromField) = <<>>) =>
          /\ pc = "rejected"
          /\ Status = 400
          /\ runs = <<>>

C29_Witness ==
    /\ runs # <<>>
    /\ FromField = <<"a", " ">>
    /\ BodyField = <<" ", "a">>
    /\ runs[1].thread_id = <<"uuid5", "NAMESPACE_DNS", <<"a">>>>
    /\ SentContent = <<TextPartOf(<<"a">>)>>

====
